---------------------------- MODULE Spec2Model ----------------------------
(***************************************************************************)
(* A model of pyptx's layout engine: the Size units and the two-pass       *)
(* resolve_length_span (src/src/pyptx/units.py), the Rect split            *)
(* operations (src/src/pyptx/layout.py and the older src/src/pyptx/core.py)*)
(* and the Area / SlideRoot tree with its layout walk                      *)
(* (src/src/pyptx/layout.py).                                              *)
(*                                                                         *)
(* Lengths are integers (EMU).  A float parameter of a unit is kept as the *)
(* exact fraction num/den; int(...) is truncation toward zero.             *)
(***************************************************************************)
EXTENDS Integers, Sequences, FiniteSets, TLC

VARIABLES
    \* ---- the pure functions under test (SpanSpec) ----
    specs,            \* the unit list handed to the call
    self_rect,        \* the source Rect the split is called on
    total_emu,        \* the extent handed to resolve_length_span
    call,             \* which function was called last ("none" before any)
    result,           \* what it returned or raised
    \* ---- the Area tree (Spec) ----
    nNodes,           \* number of Area objects created so far (1 = the SlideRoot)
    children,         \* Area.children, per node
    parent,           \* Area._parent, per node (None for the root and fresh nodes)
    length,           \* Area.length, per node
    split_direction,  \* Area.split_direction, per node
    rect,             \* Area._rect, per node (NoRect until layout assigns it)
    slide,            \* SlideRoot.slide_width / slide_height
    ret,              \* the last call on the tree and its outcome
    walked,           \* the nodes whose layout() ran during the last resolve()/layout()
    laidOut,          \* history: the nodes some layout() call has reached
    resolved          \* history: some resolve() has returned normally

spanVars == <<specs, self_rect, total_emu, call, result>>
treeVars == <<nNodes, children, parent, length, split_direction, rect, slide, ret,
              walked, laidOut, resolved>>
vars == <<specs, self_rect, total_emu, call, result,
          nNodes, children, parent, length, split_direction, rect, slide, ret,
          walked, laidOut, resolved>>

---------------------------------------------------------------------------
\* Bounds of the model.
MaxUnits == 3
MaxNodes == 4
MaxSplit == 2

\* Program constants.
EMUS_PER_INCH == 914400
EMUS_PER_CM == 360000

None == "None"

---------------------------------------------------------------------------
\* Units (class Size and its subclasses).  Every unit is a record
\* [kind, num, den]; the float it was built from is num/den.
Inch(n, d) == [kind |-> "Inch", num |-> n, den |-> d]
Centimeter(n, d) == [kind |-> "Centimeter", num |-> n, den |-> d]
Ratio(n, d) == [kind |-> "Ratio", num |-> n, den |-> d]
Auto(w) == [kind |-> "Auto", num |-> w, den |-> 1]

\* Python's int(): truncation toward zero of a / b (b > 0).
IntTrunc(a, b) == IF a >= 0 THEN a \div b ELSE -((-a) \div b)

Returned(v) == [status |-> "ok", value |-> v]
Raised(e) == [status |-> e, value |-> 0]

Inch_resolve(s, parent_size_emu, available_space_emu, total_weights) ==
    Returned(IntTrunc(s.num * EMUS_PER_INCH, s.den))

Centimeter_resolve(s, parent_size_emu, available_space_emu, total_weights) ==
    Returned(IntTrunc(s.num * EMUS_PER_CM, s.den))

Ratio_resolve(s, parent_size_emu, available_space_emu, total_weights) ==
    Returned(IntTrunc(parent_size_emu * s.num, s.den))

\* A plausible slip: the share is taken of the parent size, not of what is left.
Auto_resolve_OfParent(s, parent_size_emu, available_space_emu, total_weights) ==
    IF total_weights <= 0 THEN Raised("ValueError")
    ELSE Returned(IntTrunc(parent_size_emu * s.num, total_weights))

Auto_resolve(s, parent_size_emu, available_space_emu, total_weights) ==
    IF total_weights <= 0 THEN Raised("ValueError")
    ELSE Returned(IntTrunc(available_space_emu * s.num, total_weights))

\* Dynamic dispatch of s.resolve(...).
Size_resolve(s, parent_size_emu, available_space_emu, total_weights) ==
    CASE s.kind = "Inch" -> Inch_resolve(s, parent_size_emu, available_space_emu, total_weights)
      [] s.kind = "Centimeter" -> Centimeter_resolve(s, parent_size_emu, available_space_emu, total_weights)
      [] s.kind = "Ratio" -> Ratio_resolve(s, parent_size_emu, available_space_emu, total_weights)
      [] s.kind = "Auto" -> Auto_resolve(s, parent_size_emu, available_space_emu, total_weights)

---------------------------------------------------------------------------
\* resolve_length_span
RECURSIVE SumTo(_, _)
SumTo(f, n) == IF n = 0 THEN 0 ELSE f[n] + SumTo(f, n - 1)

\* Pass 1, the Auto branch: total_w += s.weight.
PassOneWeights(ss) ==
    SumTo([i \in 1..Len(ss) |-> IF ss[i].kind = "Auto" THEN ss[i].num ELSE 0], Len(ss))

\* Pass 1, the other branch: total_fixed += s.resolve(total_emu, Emu(0), Emu(0)).
PassOneFixed(ss, total) ==
    SumTo([i \in 1..Len(ss) |->
              IF ss[i].kind = "Auto" THEN 0 ELSE Size_resolve(ss[i], total, 0, 0).value],
          Len(ss))

\* Pass 2: the list comprehension; the first resolve that raises ends it.
PassTwo(ss, total, avail, total_w) ==
    LET r == [i \in 1..Len(ss) |-> Size_resolve(ss[i], total, avail, total_w)]
        bad == {i \in 1..Len(ss) : r[i].status # "ok"}
    IN  IF bad # {}
        THEN [status |-> r[CHOOSE i \in bad : \A j \in bad : i <= j].status,
              lengths |-> << >>]
        ELSE [status |-> "ok", lengths |-> [i \in 1..Len(ss) |-> r[i].value]]

\* A plausible slip: the overflow test is left out.
resolve_length_span_Unchecked(ss, total) ==
    LET total_fixed == PassOneFixed(ss, total)
        total_w == PassOneWeights(ss)
        avail == total - total_fixed
    IN  PassTwo(ss, total, avail, total_w)

resolve_length_span(ss, total) ==
    LET total_fixed == PassOneFixed(ss, total)
        total_w == PassOneWeights(ss)
        avail == total - total_fixed
    IN  IF avail < 0
        THEN [status |-> "OverflowError", lengths |-> << >>]
        ELSE PassTwo(ss, total, avail, total_w)

---------------------------------------------------------------------------
\* Rect (layout.py) and its two splits.
Rect(x, y, w, h) == [x |-> x, y |-> y, width |-> w, height |-> h]

\* cursor before element i of the loop: start plus the lengths already placed.
CursorAt(start, lens, i) == start + SumTo(lens, i - 1)

\* A plausible slip: the cursor is never advanced.
Rect_split_horizontal_NoAdvance(self, lengths) ==
    LET r == resolve_length_span(lengths, self.width)
    IN  [status |-> r.status,
         rects |-> [i \in 1..Len(r.lengths) |->
                       Rect(self.x, self.y, r.lengths[i], self.height)]]

\* layout.py Rect.split_horizontal: resolves against self.width, cursor on x.
Rect_split_horizontal(self, lengths) ==
    LET r == resolve_length_span(lengths, self.width)
    IN  [status |-> r.status,
         rects |-> [i \in 1..Len(r.lengths) |->
                       Rect(CursorAt(self.x, r.lengths, i), self.y,
                            r.lengths[i], self.height)]]

\* A plausible slip: the cursor starts at 0 instead of at self.y.
Rect_split_vertical_FromZero(self, lengths) ==
    LET r == resolve_length_span(lengths, self.height)
    IN  [status |-> r.status,
         rects |-> [i \in 1..Len(r.lengths) |->
                       Rect(self.x, CursorAt(0, r.lengths, i),
                            self.width, r.lengths[i])]]

\* layout.py Rect.split_vertical: resolves against self.height, cursor on y.
Rect_split_vertical(self, lengths) ==
    LET r == resolve_length_span(lengths, self.height)
    IN  [status |-> r.status,
         rects |-> [i \in 1..Len(r.lengths) |->
                       Rect(self.x, CursorAt(self.y, r.lengths, i),
                            self.width, r.lengths[i])]]

\* core.py Rect.split_vertical: resolves against self.width, cursor on x.
Core_Rect_split_vertical(self, sp) ==
    LET r == resolve_length_span(sp, self.width)
    IN  [status |-> r.status,
         rects |-> [i \in 1..Len(r.lengths) |->
                       Rect(CursorAt(self.x, r.lengths, i), self.y,
                            r.lengths[i], self.height)]]

\* core.py Rect.split_horizontal: resolves against self.height, cursor on y.
Core_Rect_split_horizontal(self, sp) ==
    LET r == resolve_length_span(sp, self.height)
    IN  [status |-> r.status,
         rects |-> [i \in 1..Len(r.lengths) |->
                       Rect(self.x, CursorAt(self.y, r.lengths, i),
                            self.width, r.lengths[i])]]

---------------------------------------------------------------------------
\* The Area tree (layout.py).  Areas are numbered in creation order; the
\* SlideRoot is Area 1.  An Optional value is a sequence of at most one element.
Nodes == 1..MaxNodes
Live == 1..nNodes
Root == 1
NoRect == << >>
NoLength == << >>
NoParent == 0

\* The part of the heap the builder operations write.
Heap == [nNodes |-> nNodes, children |-> children, parent |-> parent,
         length |-> length, split_direction |-> split_direction]

\* Area.__init__(length): a new Area, no children, no rect, no parent, no split.
Area_init(h, len) ==
    [h EXCEPT !.nNodes = h.nNodes + 1,
              !.children[h.nNodes + 1] = << >>,
              !.parent[h.nNodes + 1] = NoParent,
              !.length[h.nNodes + 1] = len,
              !.split_direction[h.nNodes + 1] = None]

\* A guarded variant: a builder call on a resolved tree is refused.
Area_add_child_FailFast(h, n, item) ==
    IF resolved THEN [status |-> "LayoutStateError", heap |-> h]
    ELSE [status |-> "ok",
          heap |-> [h EXCEPT !.parent[item] = n, !.children[n] = Append(@, item)]]

\* Area.add_child(item): [status, heap]; the code has no failing path.
Area_add_child(h, n, item) ==
    [status |-> "ok",
     heap |-> [h EXCEPT !.parent[item] = n, !.children[n] = Append(@, item)]]

\* The loop of _apply_split: for l in lengths: self.add_child(Area(l)).
RECURSIVE AddBoxes(_, _, _, _)
AddBoxes(h, n, lengths, i) ==
    IF i > Len(lengths) THEN h
    ELSE AddBoxes(Area_add_child(Area_init(h, <<lengths[i]>>), n, h.nNodes + 1).heap,
                  n, lengths, i + 1)

\* A plausible slip: the new boxes are appended to the children already there.
Area_apply_split_Append(h, n, lengths, direction) ==
    IF lengths = << >> THEN [status |-> "SpecMismatchError", heap |-> h]
    ELSE [status |-> "ok",
          heap |-> [AddBoxes(h, n, lengths, 1) EXCEPT !.split_direction[n] = direction]]

\* Area._apply_split(lengths, direction): [status, heap].
Area_apply_split(h, n, lengths, direction) ==
    LET d == CASE direction \in {"vertical", "v"} -> "vertical"
               [] direction \in {"horizontal", "h"} -> "horizontal"
               [] OTHER -> None
    IN  IF d = None THEN [status |-> "LayoutError", heap |-> h]
        ELSE IF lengths = << >> THEN [status |-> "SpecMismatchError", heap |-> h]
        ELSE [status |-> "ok",
              heap |-> [AddBoxes([h EXCEPT !.children[n] = << >>], n, lengths, 1)
                           EXCEPT !.split_direction[n] = d]]

\* Area.split_vertical(lengths)
Area_split_vertical(h, n, lengths) == Area_apply_split(h, n, lengths, "vertical")

\* Area.split_horizontal(lengths)
Area_split_horizontal(h, n, lengths) == Area_apply_split(h, n, lengths, "horizontal")

\* The rect property as a plain attribute (what core.py's LayoutItem has).
Area_rect_Attribute(n) == [status |-> "ok", rval |-> rect[n]]

\* The rect property of Area.
Area_rect(n) ==
    IF rect[n] = NoRect THEN [status |-> "LayoutStateError", rval |-> NoRect]
    ELSE [status |-> "ok", rval |-> rect[n]]

\* [child.length or Auto(1) for child in self.children]
ChildLengths(n) ==
    [i \in 1..Len(children[n]) |->
        IF length[children[n][i]] = NoLength THEN Auto(1)
        ELSE length[children[n][i]][1]]

\* The state a layout walk threads through: the rects, the nodes visited in
\* order, the nodes ever visited and the exception in flight ("ok" when none).
WalkState == [rect |-> rect, walked |-> << >>, calls |-> laidOut, status |-> "ok"]

RECURSIVE Area_layout(_, _, _)
RECURSIVE Area_layout_children(_, _)
RECURSIVE LayoutEach(_, _, _, _)

\* A plausible slip: a child's exception does not stop the loop over the siblings.
LayoutEach_KeepGoing(st, n, rects, i) ==
    IF i > Len(children[n]) \/ i > Len(rects) THEN st
    ELSE LayoutEach(Area_layout(st, children[n][i], rects[i]), n, rects, i + 1)

\* for child, rect in zip(self.children, rects): child.layout(rect)
LayoutEach(st, n, rects, i) ==
    IF i > Len(children[n]) \/ i > Len(rects) \/ st.status # "ok" THEN st
    ELSE LayoutEach(Area_layout(st, children[n][i], rects[i]), n, rects, i + 1)

\* Area._layout_children()
Area_layout_children(st, n) ==
    IF split_direction[n] = "vertical"
    THEN LET sp == Rect_split_vertical(st.rect[n][1], ChildLengths(n))
         IN  IF sp.status # "ok" THEN [st EXCEPT !.status = sp.status]
             ELSE LayoutEach(st, n, sp.rects, 1)
    ELSE IF split_direction[n] = "horizontal"
    THEN LET sp == Rect_split_horizontal(st.rect[n][1], ChildLengths(n))
         IN  IF sp.status # "ok" THEN [st EXCEPT !.status = sp.status]
             ELSE LayoutEach(st, n, sp.rects, 1)
    ELSE st

\* A guarded variant: a node that has a rect is not laid out again.
Area_layout_Once(st, n, r) ==
    IF st.rect[n] # NoRect THEN st
    ELSE Area_layout_children(
             [st EXCEPT !.rect[n] = <<r>>,
                        !.walked = Append(@, n),
                        !.calls = @ \cup {n}],
             n)

\* Area.layout(rect): self._rect = rect; self._layout_children()
Area_layout(st, n, r) ==
    Area_layout_children(
        [st EXCEPT !.rect[n] = <<r>>,
                   !.walked = Append(@, n),
                   !.calls = @ \cup {n}],
        n)

\* SlideRoot.resolve()
SlideRoot_resolve ==
    Area_layout(WalkState, Root, Rect(0, 0, slide.slide_width, slide.slide_height))

---------------------------------------------------------------------------
\* The inputs the model draws from.
TreeUnits == {Inch(1, 1), Auto(2)}
Slides == {[slide_width |-> 1000000, slide_height |-> 600000]}

RECURSIVE SeqsUpTo(_, _)
SeqsUpTo(S, n) ==
    IF n = 0 THEN {<< >>}
    ELSE LET shorter == SeqsUpTo(S, n - 1)
         IN  shorter \cup {Append(q, e) : q \in {t \in shorter : Len(t) = n - 1}, e \in S}

SplitLists == SeqsUpTo(TreeUnits, MaxSplit)

SpanUnits == {Inch(1, 1), Inch(2, 1), Centimeter(1, 1), Ratio(1, 2), Ratio(3, 4),
              Auto(1), Auto(2)}
SpanLists == SeqsUpTo(SpanUnits, MaxUnits)
SourceRects == {Rect(0, 0, 1000000, 600000), Rect(100, 200, 1828800, 10),
                Rect(5, 7, 0, 914400)}

NoCall == [op |-> "none", node |-> 0, status |-> "ok", rval |-> NoRect,
           nodes |-> << >>, post |-> FALSE, units |-> << >>, path |-> << >>,
           pos |-> << >>]
NoResult == [status |-> "ok", lengths |-> << >>, rects |-> << >>]

\* The state after SlideRoot(prs): one Area, the root, nothing resolved.
TreeInit ==
    /\ nNodes = 1
    /\ children = [n \in Nodes |-> << >>]
    /\ parent = [n \in Nodes |-> NoParent]
    /\ length = [n \in Nodes |-> NoLength]
    /\ split_direction = [n \in Nodes |-> None]
    /\ rect = [n \in Nodes |-> NoRect]
    /\ slide \in Slides
    /\ ret = NoCall
    /\ walked = << >>
    /\ laidOut = {}
    /\ resolved = FALSE

SpanIdle ==
    /\ specs = << >>
    /\ self_rect = Rect(0, 0, 0, 0)
    /\ total_emu = 0
    /\ call = "none"
    /\ result = NoResult

\* Area.walk(): self, then each child's walk, in order.
RECURSIVE Area_walk(_)
RECURSIVE WalkEach(_, _)
WalkEach(n, i) ==
    IF i > Len(children[n]) THEN << >>
    ELSE Area_walk(children[n][i]) \o WalkEach(n, i + 1)

\* A plausible slip: the children are yielded before the node itself.
Area_walk_PostOrder(n) == WalkEach(n, 1) \o <<n>>

Area_walk(n) == <<n>> \o WalkEach(n, 1)

SeqSet(q) == {q[i] : i \in 1..Len(q)}

\* The nodes of the tree under the root: the ones a caller reaches from it.
Attached == SeqSet(Area_walk(Root))

SetHeap(h) ==
    /\ nNodes' = h.nNodes
    /\ children' = h.children
    /\ parent' = h.parent
    /\ length' = h.length
    /\ split_direction' = h.split_direction

---------------------------------------------------------------------------
\* Navigation (layout.py).  Python indices count from 0, sequences here from 1.

\* The outcome of a call that returns a node, a tuple of indices or a node list.
Found(m) == [status |-> "ok", node |-> m]
NotFound(e) == [status |-> e, node |-> 0]

\* list.index(x): the first position of x, counted from 0; ValueError if absent.
ListIndex(q, x) ==
    IF \E i \in 1..Len(q) : q[i] = x
    THEN [status |-> "ok", index |-> (CHOOSE i \in 1..Len(q) :
                                        q[i] = x /\ \A j \in 1..(i - 1) : q[j] # x) - 1]
    ELSE [status |-> "ValueError", index |-> 0]

\* The parent property: LayoutStateError when _parent is None.
Area_parent(n) ==
    IF parent[n] = NoParent THEN NotFound("LayoutStateError") ELSE Found(parent[n])

\* The parent_pos property: self.parent.children.index(self)
Area_parent_pos(n) ==
    IF Area_parent(n).status # "ok"
    THEN [status |-> Area_parent(n).status, index |-> 0]
    ELSE ListIndex(children[Area_parent(n).node], n)

\* The loop of pos over walk_up(): the indices from n upwards, n's own first.
RECURSIVE PosUp(_)
PosUp(n) ==
    IF n = Root THEN [status |-> "ok", pos |-> << >>]
    ELSE LET pp == Area_parent_pos(n)
         IN  IF pp.status # "ok" THEN [status |-> pp.status, pos |-> << >>]
             ELSE LET up == PosUp(parent[n])
                  IN  IF up.status # "ok" THEN up
                      ELSE [status |-> "ok", pos |-> <<pp.index>> \o up.pos]

Reversed(q) == [i \in 1..Len(q) |-> q[Len(q) + 1 - i]]

\* A plausible slip: the indices are returned in the order they were collected.
Area_pos_Unreversed(n) == PosUp(n)

\* The pos property: tuple(idx[::-1])
Area_pos(n) ==
    LET up == PosUp(n)
    IN  IF up.status # "ok" THEN up ELSE [status |-> "ok", pos |-> Reversed(up.pos)]

\* A plausible slip: no range check, so Python's own list indexing applies and a
\* negative index counts from the end.
Area_get_child_Unchecked(n, index) ==
    IF index >= Len(children[n]) \/ index < -Len(children[n])
    THEN NotFound("IndexError")
    ELSE IF index < 0 THEN Found(children[n][Len(children[n]) + index + 1])
    ELSE Found(children[n][index + 1])

\* Area._get_child(index)
Area_get_child(n, index) ==
    IF index < 0 \/ index >= Len(children[n]) THEN NotFound("IndexError")
    ELSE Found(children[n][index + 1])

\* Area.__getitem__(index), index an int
Area_getitem_int(n, index) == Area_get_child(n, index)

\* Area.__getitem__(index), index a sequence of ints
RECURSIVE Area_getitem(_, _)
Area_getitem(n, index) ==
    IF Len(index) = 0 THEN Found(n)
    ELSE LET c == Area_get_child(n, index[1])
         IN  IF c.status # "ok" THEN c ELSE Area_getitem(c.node, Tail(index))

\* The indices and index sequences a lookup is tried with.
PathIndices == {-1, 0, 1}
Paths == {<< >>, <<0>>, <<1>>, <<2>>, <<-1>>,
          <<0, 0>>, <<0, 1>>, <<1, 0>>, <<1, 1>>, <<0, -1>>, <<0, 0, 0>>}

---------------------------------------------------------------------------
\* The operations on the tree.

\* n.add_child(Area()): the item is always a newly created Area, with no length.
AddChild ==
    \E n \in Attached :
        /\ nNodes < MaxNodes
        /\ \E r \in {Area_add_child(Area_init(Heap, NoLength), n, nNodes + 1)} :
               /\ SetHeap(r.heap)
               /\ ret' = [op |-> "add_child", node |-> n, status |-> r.status,
                          rval |-> NoRect,
                          nodes |-> IF r.status = "ok" THEN <<nNodes + 1>> ELSE << >>,
                          post |-> resolved,
                          units |-> << >>, path |-> << >>, pos |-> << >>]
        /\ walked' = << >>
        /\ UNCHANGED <<rect, slide, laidOut, resolved, spanVars>>

\* n.split_vertical(ls); the empty list, refused before n is touched, is tried
\* on the root.
SplitVertical ==
    \E n \in Attached, ls \in SplitLists :
        /\ nNodes + Len(ls) <= MaxNodes
        /\ ls = << >> => n = Root
        /\ \E r \in {Area_split_vertical(Heap, n, ls)} :
               /\ SetHeap(r.heap)
               /\ ret' = [op |-> "split_vertical", node |-> n, status |-> r.status,
                          rval |-> NoRect,
                          nodes |-> IF r.status = "ok" THEN r.heap.children[n] ELSE << >>,
                          post |-> resolved,
                          units |-> ls, path |-> << >>, pos |-> << >>]
        /\ walked' = << >>
        /\ UNCHANGED <<rect, slide, laidOut, resolved, spanVars>>

\* n.split_horizontal(ls)
SplitHorizontal ==
    \E n \in Attached, ls \in SplitLists :
        /\ nNodes + Len(ls) <= MaxNodes
        /\ ls = << >> => n = Root
        /\ \E r \in {Area_split_horizontal(Heap, n, ls)} :
               /\ SetHeap(r.heap)
               /\ ret' = [op |-> "split_horizontal", node |-> n, status |-> r.status,
                          rval |-> NoRect,
                          nodes |-> IF r.status = "ok" THEN r.heap.children[n] ELSE << >>,
                          post |-> resolved,
                          units |-> ls, path |-> << >>, pos |-> << >>]
        /\ walked' = << >>
        /\ UNCHANGED <<rect, slide, laidOut, resolved, spanVars>>

\* root.resolve(): the whole recursive walk, to its return or to the exception.
Resolve ==
    \E st \in {SlideRoot_resolve} :
        /\ rect' = st.rect
        /\ walked' = st.walked
        /\ laidOut' = st.calls
        /\ resolved' = (resolved \/ st.status = "ok")
        /\ ret' = [op |-> "resolve", node |-> Root, status |-> st.status,
                   rval |-> NoRect, nodes |-> << >>, post |-> resolved,
                   units |-> << >>, path |-> << >>, pos |-> << >>]
        /\ UNCHANGED <<nNodes, children, parent, length, split_direction, slide, spanVars>>

\* n.rect, read.
ReadRect ==
    \E n \in Attached :
        \E r \in {Area_rect(n)} :
            /\ ret' = [op |-> "rect", node |-> n, status |-> r.status,
                       rval |-> r.rval, nodes |-> << >>, post |-> resolved,
                       units |-> << >>, path |-> << >>, pos |-> << >>]
            /\ walked' = << >>
            /\ UNCHANGED <<nNodes, children, parent, length, split_direction, rect, slide,
                           laidOut, resolved, spanVars>>

\* list(n.walk())
Walk ==
    \E n \in Attached :
        /\ ret' = [op |-> "walk", node |-> n, status |-> "ok",
                   rval |-> NoRect, nodes |-> Area_walk(n),
                   post |-> resolved, units |-> << >>, path |-> << >>, pos |-> << >>]
        /\ walked' = << >>
        /\ UNCHANGED <<nNodes, children, parent, length, split_direction, rect, slide,
                       laidOut, resolved, spanVars>>

Init == TreeInit /\ SpanIdle

Next ==
    \/ AddChild
    \/ SplitVertical
    \/ SplitHorizontal
    \/ Resolve
    \/ ReadRect
    \/ Walk

Spec == Init /\ [][Next]_vars

---------------------------------------------------------------------------
\* Building and navigating a tree: the builder operations and the lookups by
\* index and by path.

\* root[index], index a sequence; the lookup recurses into the nodes below.
GetItem ==
    \E n \in {Root}, p \in Paths :
        \E r \in {Area_getitem(n, p)} :
            /\ ret' = [op |-> "getitem", node |-> n, status |-> r.status,
                       rval |-> NoRect,
                       nodes |-> IF r.status = "ok" THEN <<r.node>> ELSE << >>,
                       post |-> resolved, units |-> << >>, path |-> p, pos |-> << >>]
            /\ walked' = << >>
            /\ UNCHANGED <<nNodes, children, parent, length, split_direction, rect, slide,
                           laidOut, resolved, spanVars>>

\* n[index], index an int.
GetItemInt ==
    \E n \in Attached, i \in PathIndices :
        \E r \in {Area_getitem_int(n, i)} :
            /\ ret' = [op |-> "getitem_int", node |-> n, status |-> r.status,
                       rval |-> NoRect,
                       nodes |-> IF r.status = "ok" THEN <<r.node>> ELSE << >>,
                       post |-> resolved, units |-> << >>, path |-> <<i>>, pos |-> << >>]
            /\ walked' = << >>
            /\ UNCHANGED <<nNodes, children, parent, length, split_direction, rect, slide,
                           laidOut, resolved, spanVars>>

\* n.pos, read.
Pos ==
    \E n \in Attached :
        \E r \in {Area_pos(n)} :
            /\ ret' = [op |-> "pos", node |-> n, status |-> r.status,
                       rval |-> NoRect, nodes |-> << >>,
                       post |-> resolved, units |-> << >>, path |-> << >>, pos |-> r.pos]
            /\ walked' = << >>
            /\ UNCHANGED <<nNodes, children, parent, length, split_direction, rect, slide,
                           laidOut, resolved, spanVars>>

NavNext ==
    \/ AddChild
    \/ SplitVertical
    \/ SplitHorizontal
    \/ GetItem
    \/ GetItemInt
    \/ Pos

NavSpec == Init /\ [][NavNext]_vars

---------------------------------------------------------------------------
\* The pure functions, each applied to inputs drawn at the start.
SpanInit ==
    /\ specs \in SpanLists
    /\ self_rect \in SourceRects
    /\ total_emu = 0
    /\ call = "none"
    /\ result = NoResult
    /\ TreeInit

CallResolveLengthSpan ==
    \E total \in {self_rect.width, self_rect.height} :
        \E r \in {resolve_length_span(specs, total)} :
            /\ call' = "resolve_length_span"
            /\ total_emu' = total
            /\ result' = [status |-> r.status, lengths |-> r.lengths, rects |-> << >>]
            /\ UNCHANGED <<specs, self_rect, treeVars>>

SplitResult(name, r) ==
    /\ call' = name
    /\ total_emu' = 0
    /\ result' = [status |-> r.status, lengths |-> << >>, rects |-> r.rects]
    /\ UNCHANGED <<specs, self_rect, treeVars>>

CallSplitHorizontal == SplitResult("split_horizontal", Rect_split_horizontal(self_rect, specs))

CallSplitVertical == SplitResult("split_vertical", Rect_split_vertical(self_rect, specs))

CallCoreSplitVertical ==
    SplitResult("core.split_vertical", Core_Rect_split_vertical(self_rect, specs))

CallCoreSplitHorizontal ==
    SplitResult("core.split_horizontal", Core_Rect_split_horizontal(self_rect, specs))

SpanNext ==
    \/ CallResolveLengthSpan
    \/ CallSplitHorizontal
    \/ CallSplitVertical
    \/ CallCoreSplitVertical
    \/ CallCoreSplitHorizontal

SpanSpec == SpanInit /\ [][SpanNext]_vars

---------------------------------------------------------------------------
\* Properties of resolve_length_span and of the Rect splits (SpanSpec).

\* The length an Absolute or Ratio unit stands for in a container of extent total.
ConcreteLength(u, total) ==
    CASE u.kind = "Inch" -> IntTrunc(u.num * EMUS_PER_INCH, u.den)
      [] u.kind = "Centimeter" -> IntTrunc(u.num * EMUS_PER_CM, u.den)
      [] u.kind = "Ratio" -> IntTrunc(total * u.num, u.den)
      [] OTHER -> 0

FixedIdx(ss) == {i \in 1..Len(ss) : ss[i].kind # "Auto"}
WeightIdx(ss) == {i \in 1..Len(ss) : ss[i].kind = "Auto"}

RECURSIVE SumOver(_, _)
SumOver(f, I) ==
    IF I = {} THEN 0
    ELSE LET i == CHOOSE j \in I : TRUE IN f[i] + SumOver(f, I \ {i})

ConcreteSum(ss, total) ==
    SumOver([i \in 1..Len(ss) |-> ConcreteLength(ss[i], total)], FixedIdx(ss))

WeightSum(ss) == SumOver([i \in 1..Len(ss) |-> ss[i].num], WeightIdx(ss))

\* C1: whenever the Absolute and Ratio units of the list, resolved against the
\* total extent, sum to more than that extent, resolve_length_span raises
\* OverflowError and hands back no lengths at all.
C1_OverflowRaises ==
    (call = "resolve_length_span" /\ ConcreteSum(specs, total_emu) > total_emu)
        => (result.status = "OverflowError" /\ result.lengths = << >>)

\* C1's case: an overflowing list that also holds a Weight unit was resolved.
C1_Witness ==
    /\ call = "resolve_length_span"
    /\ ConcreteSum(specs, total_emu) > total_emu
    /\ WeightIdx(specs) # {}
    /\ Len(specs) >= 2
    /\ result.status = "OverflowError"

SplitCalls == {"split_horizontal", "split_vertical",
               "core.split_vertical", "core.split_horizontal"}

\* The axis a split resolves its units against, as the function is written.
AlongX(c) == c \in {"split_horizontal", "core.split_vertical"}
Start(r, c) == IF AlongX(c) THEN r.x ELSE r.y
Extent(r, c) == IF AlongX(c) THEN r.width ELSE r.height

\* Rectangle i starts where rectangle i-1 ends, the first one at the source origin.
EdgeToEdge(rs, src, c) ==
    \A i \in 1..Len(rs) :
        Start(rs[i], c) = IF i = 1 THEN Start(src, c)
                          ELSE Start(rs[i - 1], c) + Extent(rs[i - 1], c)

FarEdge(r, c) == Start(r, c) + Extent(r, c)

\* C3 as stated: a successful split returns rectangles that lie edge to edge
\* from the source origin and end exactly at the source rect's far edge.
C3_TilesSource ==
    (call \in SplitCalls /\ result.status = "ok" /\ result.rects # << >>) =>
        /\ EdgeToEdge(result.rects, self_rect, call)
        /\ FarEdge(result.rects[Len(result.rects)], call) = FarEdge(self_rect, call)

\* C3, amended: a successful split returns one rectangle per unit, in order,
\* edge to edge from the source origin along the split axis, each as long as
\* its unit resolves to; the last one ends at or before the far edge of the
\* source rect (what the units do not claim stays uncovered).
C3_EdgeToEdgeWithin ==
    (call \in SplitCalls /\ result.status = "ok") =>
        LET lens == resolve_length_span(specs, Extent(self_rect, call)).lengths
        IN  /\ Len(result.rects) = Len(specs)
            /\ EdgeToEdge(result.rects, self_rect, call)
            /\ \A i \in 1..Len(result.rects) : Extent(result.rects[i], call) = lens[i]
            /\ result.rects # << >> =>
                   FarEdge(result.rects[Len(result.rects)], call) <= FarEdge(self_rect, call)

\* C3's case: a split into several rectangles that stops short of the far edge.
C3_Witness ==
    /\ call = "split_horizontal"
    /\ result.status = "ok"
    /\ Len(result.rects) >= 2
    /\ \A i \in 1..Len(result.rects) : result.rects[i].width > 0
    /\ FarEdge(result.rects[Len(result.rects)], call) < FarEdge(self_rect, call)

\* C4 as stated: split_vertical divides the width (every rectangle keeps the
\* source's y and height and is as wide as its unit resolves to), and
\* split_horizontal divides the height (every rectangle keeps x and width).
C4_SplitAxes ==
    /\ call \in {"split_vertical", "core.split_vertical"} =>
           LET want == resolve_length_span(specs, self_rect.width)
           IN  /\ result.status = want.status
               /\ Len(result.rects) = Len(want.lengths)
               /\ \A i \in 1..Len(result.rects) :
                      /\ result.rects[i].y = self_rect.y
                      /\ result.rects[i].height = self_rect.height
                      /\ result.rects[i].width = want.lengths[i]
    /\ call \in {"split_horizontal", "core.split_horizontal"} =>
           LET want == resolve_length_span(specs, self_rect.height)
           IN  /\ result.status = want.status
               /\ Len(result.rects) = Len(want.lengths)
               /\ \A i \in 1..Len(result.rects) :
                      /\ result.rects[i].x = self_rect.x
                      /\ result.rects[i].width = self_rect.width
                      /\ result.rects[i].height = want.lengths[i]

---------------------------------------------------------------------------
\* Properties of the Area tree (Spec).

Last(q) == q[Len(q)]
IndexOf(q, x) == CHOOSE i \in 1..Len(q) : q[i] = x
Descendants(n) == SeqSet(Area_walk(n)) \ {n}
SlideRect == Rect(0, 0, slide.slide_width, slide.slide_height)
Builders == {"add_child", "split_vertical", "split_horizontal"}

\* The rectangles a node's layout hands to its children (no-split nodes hand none).
SlotsOf(n) ==
    IF split_direction[n] = "vertical"
    THEN Rect_split_vertical(rect[n][1], ChildLengths(n))
    ELSE IF split_direction[n] = "horizontal"
    THEN Rect_split_horizontal(rect[n][1], ChildLengths(n))
    ELSE [status |-> "ok", rects |-> << >>]

\* C5 as stated: after resolve(), the children of a node split with the
\* builder split_vertical are columns (child i keeps the node's y and
\* height, is as wide as the i-th length resolved against the node's width,
\* and starts at the node's x plus the widths before it); the children of a
\* node split with split_horizontal are rows that keep x and width.
C5_ColumnsAndRows ==
    (ret.op = "resolve" /\ ret.status = "ok") =>
        \A n \in SeqSet(walked) :
            /\ split_direction[n] = "vertical" =>
                   LET R == rect[n][1]
                       want == resolve_length_span(ChildLengths(n), R.width)
                   IN  /\ want.status = "ok"
                       /\ \A i \in 1..Len(children[n]) :
                              rect[children[n][i]] =
                                  <<Rect(R.x + SumTo(want.lengths, i - 1), R.y,
                                         want.lengths[i], R.height)>>
            /\ split_direction[n] = "horizontal" =>
                   LET R == rect[n][1]
                       want == resolve_length_span(ChildLengths(n), R.height)
                   IN  /\ want.status = "ok"
                       /\ \A i \in 1..Len(children[n]) :
                              rect[children[n][i]] =
                                  <<Rect(R.x, R.y + SumTo(want.lengths, i - 1),
                                         R.width, want.lengths[i])>>

\* C6 as stated: when layout reaches a node without a split axis that has
\* exactly one child, the child is laid out too, with the node's own rect.
C6_BoxForwardsRect ==
    ret.op = "resolve" =>
        \A n \in SeqSet(walked) :
            (split_direction[n] = None /\ Len(children[n]) = 1) =>
                /\ children[n][1] \in SeqSet(walked)
                /\ rect[children[n][1]] = rect[n]

\* C7: reading the rect of a node no layout() call has reached raises
\* LayoutStateError and yields nothing; once the node has been laid out the
\* read returns the rect it was assigned.
C7_RectNeedsLayout ==
    ret.op = "rect" =>
        IF ret.node \in laidOut
        THEN /\ ret.status = "ok"
             /\ ret.rval # NoRect
             /\ ret.rval = rect[ret.node]
        ELSE /\ ret.status = "LayoutStateError"
             /\ ret.rval = NoRect

\* C7's case: after a resolve() that returned, a node it did not reach is read.
C7_Witness ==
    /\ ret.op = "rect"
    /\ resolved
    /\ ret.node \notin laidOut
    /\ ret.status = "LayoutStateError"
    /\ \E m \in laidOut \ {Root} : TRUE

\* C8 as stated: Resolved is terminal; once a node has a rect, no later
\* operation changes it.
C8_ResolvedIsTerminal ==
    [][\A n \in Nodes : rect[n] # NoRect => rect'[n] = rect[n]]_vars

\* C8, amended: a node gets its rect only from a layout() call of a resolve(),
\* and a rect is never taken away again, but Resolved is not terminal: every
\* resolve() lays the root and the nodes under it out again and overwrites
\* their rects - with the same rects when nothing was built in between.
C8_Step ==
    /\ \A n \in Nodes : rect[n] # NoRect => rect'[n] # NoRect
    /\ \A n \in Nodes :
           rect'[n] # rect[n] => (ret'.op = "resolve" /\ n \in SeqSet(walked'))
    /\ ret'.op = "resolve" =>
           /\ walked' # << >>
           /\ walked'[1] = Root
           /\ rect'[Root] = <<SlideRect>>
           /\ \A n \in SeqSet(walked') : rect'[n] # NoRect /\ n \in laidOut'
           /\ ret'.status = "ok" =>
                  \A n \in SeqSet(walked') :
                      split_direction[n] # None =>
                          \A i \in 1..Len(children[n]) : children[n][i] \in SeqSet(walked')
    /\ (ret.op = "resolve" /\ ret'.op = "resolve") =>
           (rect' = rect /\ walked' = walked /\ ret'.status = ret.status)

C8_RelayoutOverwrites == [][C8_Step]_vars

\* C8's case: a resolve() on an already resolved tree has run and has laid
\* out the root and its children again.
C8_Witness ==
    /\ ret.op = "resolve"
    /\ ret.post
    /\ ret.status = "ok"
    /\ Len(walked) >= 3

\* C9 as stated: a builder call on a node of an already resolved tree fails
\* and leaves children, split axes and rects as they were.
C9_BuildersRefused ==
    [][(resolved /\ ret'.op \in Builders) =>
           /\ ret'.status # "ok"
           /\ children' = children
           /\ split_direction' = split_direction
           /\ rect' = rect]_vars

\* C9, amended: the builder calls do not look at the resolution state.  On a
\* resolved tree as before, add_child appends the new child, a split with a
\* non-empty list replaces the children by new ones and records the axis, and
\* only the empty-list split fails (SpecMismatchError, nothing changed); in
\* every case the rects already assigned stay as they are and the new
\* children have none.
C9_Step ==
    ret'.op \in Builders =>
        /\ rect' = rect
        /\ laidOut' = laidOut
        /\ resolved' = resolved
        /\ ret'.op = "add_child" =>
               /\ ret'.status = "ok"
               /\ ret'.nodes = <<nNodes + 1>>
               /\ children'[ret'.node] = Append(children[ret'.node], nNodes + 1)
               /\ rect'[nNodes + 1] = NoRect
        /\ ret'.op \in {"split_vertical", "split_horizontal"} =>
               \/ /\ ret'.status = "ok"
                  /\ ret'.nodes # << >>
                  /\ children'[ret'.node] = ret'.nodes
                  /\ \A i \in 1..Len(ret'.nodes) :
                         /\ ret'.nodes[i] = nNodes + i
                         /\ rect'[ret'.nodes[i]] = NoRect
                  /\ split_direction'[ret'.node] =
                         (IF ret'.op = "split_vertical" THEN "vertical" ELSE "horizontal")
               \/ /\ ret'.status = "SpecMismatchError"
                  /\ children' = children
                  /\ split_direction' = split_direction
                  /\ nNodes' = nNodes

C9_BuildersIgnoreResolution == [][C9_Step]_vars

\* C9's case: a node that holds a rect was split, and a child was added, after
\* resolve() had returned.
C9_Witness ==
    /\ ret.op = "add_child"
    /\ ret.post
    /\ ret.status = "ok"
    /\ rect[ret.node] # NoRect
    /\ split_direction[ret.node] # None
    /\ Len(children[ret.node]) >= 2

\* C10 as stated: when the split of a node N's children fails during
\* resolve(), the error comes out unmodified, N itself is left without the
\* rect of this walk, no descendant of N is laid out, and nothing after N in
\* the walk is laid out.
C10_NoRectForFailingNode ==
    [][(ret'.op = "resolve" /\ ret'.status # "ok") =>
           LET N == Last(walked')
           IN  /\ ret'.status = "OverflowError"
               /\ rect'[N] = rect[N]
               /\ \A c \in Descendants(N) : c \notin SeqSet(walked')
               /\ \A m \in Attached :
                      IndexOf(Area_walk(Root), m) > IndexOf(Area_walk(Root), N)
                          => m \notin SeqSet(walked')]_vars

\* C10, amended: when the split of a node N's children fails during
\* resolve(), the OverflowError comes out unmodified; N keeps the rect
\* layout() assigned to it before it tried to split (the slide rect for the
\* root, its slot in the parent's split otherwise); no descendant of N is laid
\* out; the nodes laid out before hold the rects they were handed; and
\* nothing after N in the walk is laid out.
C10_FailureLeavesPartialLayout ==
    (ret.op = "resolve" /\ ret.status # "ok") =>
        LET N == Last(walked)
            order == Area_walk(Root)
        IN  /\ ret.status = "OverflowError"
            /\ SlotsOf(N).status = "OverflowError"
            /\ \A m \in SeqSet(walked) :
                   /\ rect[m] # NoRect
                   /\ m = Root => rect[m] = <<SlideRect>>
                   /\ m # Root =>
                          /\ parent[m] \in SeqSet(walked)
                          /\ SlotsOf(parent[m]).status = "ok"
                          /\ rect[m] = <<SlotsOf(parent[m]).rects[IndexOf(children[parent[m]], m)]>>
            /\ \A c \in Descendants(N) : c \notin SeqSet(walked)
            /\ \A m \in Attached :
                   IndexOf(order, m) > IndexOf(order, N) => m \notin SeqSet(walked)
            /\ \A i, j \in 1..Len(walked) :
                   i < j => IndexOf(order, walked[i]) < IndexOf(order, walked[j])

\* C10's case: the failing node is not the root, has a child of its own, and
\* a sibling after it that the walk never reached.
C10_Witness ==
    /\ ret.op = "resolve"
    /\ ret.status = "OverflowError"
    /\ Last(walked) # Root
    /\ children[Last(walked)] # << >>
    /\ \E m \in Attached :
           /\ parent[m] = parent[Last(walked)]
           /\ IndexOf(Area_walk(Root), m) > IndexOf(Area_walk(Root), Last(walked))
           /\ m \notin SeqSet(walked)

---------------------------------------------------------------------------
\* C11: a builder split with a non-empty unit list replaces the node's
\* children by exactly len(units) newly created boxes, in input order: box i
\* has no children, no split axis and no rect, carries units[i] as its length
\* and the node as its parent; the call returns these boxes and records the
\* axis on the node, and touches no other node.  With the empty list the
\* call fails (SpecMismatchError) and children and split axes stay as they were.
SplitOps == {"split_vertical", "split_horizontal"}

C11_Step ==
    ret'.op \in SplitOps =>
        LET n == ret'.node
            units == ret'.units
        IN  IF units # << >>
            THEN /\ ret'.status = "ok"
                 /\ Len(children'[n]) = Len(units)
                 /\ ret'.nodes = children'[n]
                 /\ \A i \in 1..Len(units) :
                        LET c == children'[n][i]
                        IN  /\ c \notin Live
                            /\ c \in 1..nNodes'
                            /\ children'[c] = << >>
                            /\ length'[c] = <<units[i]>>
                            /\ parent'[c] = n
                            /\ split_direction'[c] = None
                            /\ rect'[c] = NoRect
                            /\ \A j \in 1..Len(units) : j # i => children'[n][j] # c
                 /\ split_direction'[n] =
                        (IF ret'.op = "split_vertical" THEN "vertical" ELSE "horizontal")
                 /\ \A m \in Live :
                        /\ m # n => /\ children'[m] = children[m]
                                    /\ split_direction'[m] = split_direction[m]
                        /\ parent'[m] = parent[m]
                        /\ length'[m] = length[m]
            ELSE /\ ret'.status = "SpecMismatchError"
                 /\ ret'.nodes = << >>
                 /\ nNodes' = nNodes
                 /\ children' = children
                 /\ split_direction' = split_direction
                 /\ parent' = parent
                 /\ length' = length

C11_SplitReplacesChildren == [][C11_Step]_vars

\* C11's case: a split has just replaced a child the node had before (the old
\* child still names the node as its parent but is no longer among its children).
C11_Witness ==
    /\ ret.op \in SplitOps
    /\ ret.status = "ok"
    /\ Len(ret.units) = 2
    /\ \E m \in Live : parent[m] = ret.node /\ m \notin SeqSet(children[ret.node])

---------------------------------------------------------------------------
\* C12 as stated: resolve() never returns normally while the tree under the
\* root holds a node without a split axis that has two or more children.
C12_BoxAtMostOneChild ==
    (ret.op = "resolve" /\ ret.status = "ok") =>
        \A n \in Attached :
            split_direction[n] = None => Len(children[n]) <= 1

---------------------------------------------------------------------------
\* Claims about navigation (NavSpec).

\* The node reached from n by taking, level by level, the child with the given
\* index (counted from 0); 0 when some index is not an index of a child there.
Follow(n, p) ==
    LET at[k \in 0..Len(p)] ==
            IF k = 0 THEN n
            ELSE IF at[k - 1] = 0 THEN 0
            ELSE IF p[k] >= 0 /\ p[k] < Len(children[at[k - 1]])
            THEN children[at[k - 1]][p[k] + 1]
            ELSE 0
    IN  at[Len(p)]

\* C13: in every tree the builder operations make, every node under the root
\* has a pos; it is the sequence of child indices that leads from the root to
\* the node, the root's is the empty sequence, and root[node.pos] is the node.
C13_PathRoundTrip ==
    /\ \A n \in Attached :
           LET p == Area_pos(n)
           IN  /\ p.status = "ok"
               /\ Follow(Root, p.pos) = n
               /\ (n = Root) = (p.pos = << >>)
               /\ Area_getitem(Root, p.pos) = Found(n)
    /\ ret.op = "pos" =>
           /\ ret.status = "ok"
           /\ Follow(Root, ret.pos) = ret.node
           /\ (ret.node = Root) = (ret.pos = << >>)
    /\ (ret.op = "getitem" /\ ret.node = Root) =>
           \A n \in Attached : Area_pos(n).pos = ret.path => ret.nodes = <<n>>

\* C13's case: the root was indexed with the pos of a node two levels down
\* that is not a first child all the way, and returned it.
C13_Witness ==
    /\ ret.op = "getitem"
    /\ ret.node = Root
    /\ ret.status = "ok"
    /\ Len(ret.path) = 2
    /\ ret.path[1] # ret.path[2]
    /\ Area_pos(ret.nodes[1]).pos = ret.path

\* Every index of p is, at its level below n, the index of a child.
AllValid(n, p) ==
    \A k \in 1..Len(p) :
        LET m == Follow(n, SubSeq(p, 1, k - 1))
        IN  /\ m # 0
            /\ p[k] >= 0
            /\ p[k] < Len(children[m])

Lookups == {"getitem", "getitem_int"}

\* C14: n[path], path one index or a sequence of indices, descends one level
\* per index: it returns n for the empty sequence, the node the indices lead to
\* when each index i has 0 <= i < number of children at its level, and raises
\* IndexError when some index, negative or too large, is not; the tree is the
\* same after the lookup as before.
C14_Outcome ==
    ret.op \in Lookups =>
        LET n == ret.node
            p == ret.path
        IN  /\ (ret.op = "getitem_int") => Len(p) = 1
            /\ p = << >> => /\ ret.status = "ok"
                            /\ ret.nodes = <<n>>
            /\ AllValid(n, p) => /\ ret.status = "ok"
                                 /\ ret.nodes = <<Follow(n, p)>>
            /\ ~AllValid(n, p) => /\ ret.status = "IndexError"
                                  /\ ret.nodes = << >>

C14_Step ==
    ret'.op \in Lookups =>
        UNCHANGED <<nNodes, children, parent, length, split_direction, rect>>

C14_LookupByIndex == []C14_Outcome /\ [][C14_Step]_vars

\* C14's case: a lookup two levels down was refused for a negative index at a
\* node that does have children.
C14_Witness ==
    /\ ret.op = "getitem"
    /\ ret.status = "IndexError"
    /\ ret.path = <<0, -1>>
    /\ Follow(ret.node, <<0>>) # 0
    /\ children[Follow(ret.node, <<0>>)] # << >>

---------------------------------------------------------------------------
\* C15 (Spec).

\* The subtree of n: n and everything reached from it through children lists.
ChildSet(S) == UNION {SeqSet(children[m]) : m \in S}

RECURSIVE Closure(_, _)
Closure(S, k) == IF k = 0 THEN S ELSE Closure(S \cup ChildSet(S), k - 1)

Subtree(n) == Closure({n}, nNodes)

\* q lists the subtree of n depth-first in pre-order: n first, every node of
\* the subtree once, and after each node the whole subtrees of its children,
\* one after the other in child order.
PreOrder(q, n) ==
    /\ Len(q) = Cardinality(Subtree(n))
    /\ SeqSet(q) = Subtree(n)
    /\ q[1] = n
    /\ \A i \in 1..Len(q) :
           LET m == q[i]
               size(c) == Cardinality(Subtree(c))
           IN  /\ i + size(m) - 1 <= Len(q)
               /\ {q[j] : j \in i..(i + size(m) - 1)} = Subtree(m)
               /\ \A k \in 1..Len(children[m]) :
                      q[i + 1 + SumTo([c \in 1..Len(children[m]) |->
                                          size(children[m][c])], k - 1)]
                          = children[m][k]

\* C15: walk() on a node yields its subtree depth-first in pre-order, each
\* node once; it leaves the tree as it was, and a second walk of the same node
\* right after the first yields the same nodes in the same order.
C15_Outcome ==
    ret.op = "walk" =>
        /\ ret.status = "ok"
        /\ PreOrder(ret.nodes, ret.node)

C15_Step ==
    ret'.op = "walk" =>
        /\ UNCHANGED <<nNodes, children, parent, length, split_direction, rect>>
        /\ (ret.op = "walk" /\ ret.node = ret'.node) => ret'.nodes = ret.nodes

C15_WalkIsPreOrder == []C15_Outcome /\ [][C15_Step]_vars

\* C15's case: the root of a resolved tree was walked; it has two children and
\* the first of them has a child, which the walk yields before the second.
C15_Witness ==
    /\ ret.op = "walk"
    /\ ret.node = Root
    /\ resolved
    /\ rect[Root] # NoRect
    /\ Len(children[Root]) = 2
    /\ Len(children[children[Root][1]]) = 1
    /\ ret.nodes = <<Root, children[Root][1], children[children[Root][1]][1],
                     children[Root][2]>>

---------------------------------------------------------------------------
\* C16 (Spec).

\* Rectangle a lies inside rectangle b.
Inside(a, b) ==
    /\ a.x >= b.x
    /\ a.y >= b.y
    /\ a.x + a.width <= b.x + b.width
    /\ a.y + a.height <= b.y + b.height

\* Rectangles a and b share some area.
Overlap(a, b) ==
    /\ a.x < b.x + b.width
    /\ b.x < a.x + a.width
    /\ a.y < b.y + b.height
    /\ b.y < a.y + a.height

\* No length of a node of the tree is a negative Inch or Centimeter.
NonNegativeUnits ==
    \A n \in Attached :
        length[n] # NoLength => (length[n][1].num >= 0 /\ length[n][1].den > 0)

\* C16: when resolve() has returned normally on a tree whose units are not
\* negative, the root's rect is (0, 0, slide width, slide height); every child
\* that has a rect lies inside the rect of its parent; and the rects of two
\* different children of a node do not overlap.
C16_Containment ==
    (ret.op = "resolve" /\ ret.status = "ok" /\ NonNegativeUnits) =>
        /\ rect[Root] = <<SlideRect>>
        /\ \A n \in Attached :
               rect[n] # NoRect =>
                   /\ \A i \in 1..Len(children[n]) :
                          rect[children[n][i]] # NoRect =>
                              Inside(rect[children[n][i]][1], rect[n][1])
                   /\ \A i, j \in 1..Len(children[n]) :
                          (i # j /\ rect[children[n][i]] # NoRect
                                 /\ rect[children[n][j]] # NoRect) =>
                              ~Overlap(rect[children[n][i]][1], rect[children[n][j]][1])

\* C16's case: resolve() returned normally on a tree two levels deep: the root
\* has two children with rects of positive area, the second of them not at the
\* root's origin, and that one has a child with a rect of its own.
C16_Witness ==
    /\ ret.op = "resolve"
    /\ ret.status = "ok"
    /\ Len(children[Root]) = 2
    /\ \A i \in 1..2 :
           /\ rect[children[Root][i]] # NoRect
           /\ rect[children[Root][i]][1].width > 0
           /\ rect[children[Root][i]][1].height > 0
    /\ children[children[Root][2]] # << >>
    /\ rect[children[children[Root][2]][1]] # NoRect

=============================================================================
